---- MODULE Spec2Model ----
(***************************************************************************)
(* Model of public/words/filter_words.py: load_blocklist reads the         *)
(* blocklist file into a set of lowercase single words, filter_wordlist    *)
(* streams the word list against that set, main runs one after the other.  *)
(*                                                                         *)
(* A file is its text: a sequence of one-character strings in which "\n"   *)
(* ends a line.  Reading iterates over the text line by line as Python's   *)
(* `for line in f` does (the line keeps its "\n"; the last line may have   *)
(* none) and writing appends characters to the text.                       *)
(***************************************************************************)
EXTENDS Integers, Sequences, FiniteSets

VARIABLES
    blocklist_file,   \* text of blocklist.txt (f, line 12)
    f_pos,            \* characters of f consumed by `for line in f` (line 13)
    blocked_words,    \* load_blocklist's set, filter_wordlist's argument (lines 11, 22)
    infile,           \* text of the input word list (line 28)
    infile_pos,       \* characters consumed by `for line in infile` (line 30)
    outfile_exists,   \* whether a file exists at output_path (line 29)
    outfile,          \* text of the file at output_path (lines 29, 33)
    kept_count,       \* line 24
    removed_count,    \* line 25
    removed_words,    \* line 26
    pc,               \* "load_blocklist" | "main" | "filter_wordlist" | "done"
    aborted,          \* an unhandled file error ended the run where pc stands
    run,              \* 1: first filter run, 2: re-run on the first run's output
    first             \* what the first filter run returned and wrote

vars == <<blocklist_file, f_pos, blocked_words, infile, infile_pos,
          outfile_exists, outfile, kept_count, removed_count, removed_words,
          pc, aborted, run, first>>

----------------------------------------------------------------------------
(* Bounds of the model *)

\* lines in blocklist.txt, loader alone
MaxBlockLines == 2
\* lines in blocklist.txt, whole run
MainBlockLines == 1
\* lines in the input word list
MaxInputLines == 2

----------------------------------------------------------------------------
(* Input domain *)

NL == "\n"

\* The contents of a line (without its line end): blank, whitespace only,
\* a word in two casings, a second word, a two-word phrase, a word with
\* whitespace on both sides.
LineContents ==
    { <<>>, <<" ">>, <<"a">>, <<"A">>, <<"b">>,
      <<"a", " ", "b">>, <<" ", "A", "\t">> }

SeqsUpTo(S, n) == UNION { [1..k -> S] : k \in 0..n }

RECURSIVE JoinLines(_)
JoinLines(ls) ==
    IF Len(ls) = 0 THEN <<>>
    ELSE Head(ls) \o <<NL>> \o JoinLines(Tail(ls))

\* Texts of at most n lines; the last line may lack its "\n".
Texts(n) ==
    LET full == { JoinLines(ls) : ls \in SeqsUpTo(LineContents, n) }
    IN  full \cup { SubSeq(t, 1, Len(t) - 1) : t \in full \ {<<>>} }

\* A file left at output_path by an earlier run.
StaleOutput == <<"A", NL, "b", NL>>

\* Sets the caller may hand to filter_wordlist.
BlockUniverse == { <<>>, <<"a">>, <<"b">>, <<"A">>, <<"a", " ", "b">> }

----------------------------------------------------------------------------
(* str methods *)

Whitespace == {" ", "\t", NL}

RECURSIVE lstrip(_)
lstrip(s) ==
    IF Len(s) > 0 /\ Head(s) \in Whitespace THEN lstrip(Tail(s)) ELSE s

RECURSIVE rstrip(_)
rstrip(s) ==
    IF Len(s) > 0 /\ s[Len(s)] \in Whitespace
    THEN rstrip(SubSeq(s, 1, Len(s) - 1))
    ELSE s

strip(s) == rstrip(lstrip(s))

lowerChar(c) ==
    CASE c = "A" -> "a"
      [] c = "B" -> "b"
      [] OTHER   -> c

RECURSIVE lower(_)
lower(s) ==
    IF Len(s) = 0 THEN <<>>
    ELSE <<lowerChar(Head(s))>> \o lower(Tail(s))

Contains(s, c) == \E i \in 1..Len(s) : s[i] = c

----------------------------------------------------------------------------
(* File iteration *)

\* Index of the last character of the line that starts at index i.
RECURSIVE LineEnd(_, _)
LineEnd(text, i) ==
    IF i >= Len(text) THEN Len(text)
    ELSE IF text[i] = NL THEN i
    ELSE LineEnd(text, i + 1)

\* The next line of the text after pos characters were consumed.
readline(text, pos) == SubSeq(text, pos + 1, LineEnd(text, pos + 1))

AtEOF(text, pos) == pos >= Len(text)

----------------------------------------------------------------------------
(* load_blocklist *)

Init ==
    /\ blocklist_file \in Texts(MainBlockLines)
    /\ infile \in Texts(MaxInputLines)
    /\ outfile_exists \in BOOLEAN
    /\ outfile = IF outfile_exists THEN StaleOutput ELSE <<>>
    /\ f_pos = 0
    /\ blocked_words = {}
    /\ infile_pos = 0
    /\ kept_count = 0
    /\ removed_count = 0
    /\ removed_words = <<>>
    /\ pc = "load_blocklist"
    /\ aborted = FALSE
    /\ run = 1
    /\ first = [kept |-> 0, removed |-> 0, outfile |-> <<>>]

\* Variant: the line is stripped and not lowercased.
LoadedWord_NotLowered(line) == strip(line)

\* `word = line.strip().lower()`
LoadedWord(line) == lower(strip(line))

\* Variant: the test for an empty word is missing.
IsSingleWord_AllowsEmpty(word) == ~Contains(word, " ")

\* `if word:` and `if ' ' not in word:`
IsSingleWord(word) == Len(word) > 0 /\ ~Contains(word, " ")

\* The maximal runs of characters other than the space in a word.
SpaceSeparated(word) ==
    { SubSeq(word, p[1], p[2]) : p \in
        { q \in (1..Len(word)) \X (1..Len(word)) :
            /\ q[1] <= q[2]
            /\ \A k \in q[1]..q[2] : word[k] # " "
            /\ (q[1] = 1 \/ word[q[1] - 1] = " ")
            /\ (q[2] = Len(word) \/ word[q[2] + 1] = " ") } }

\* Variant: a phrase is split and each of its words is blocked.
LoadLine_SplitsPhrases ==
    /\ pc = "load_blocklist"
    /\ ~aborted
    /\ ~AtEOF(blocklist_file, f_pos)
    /\ LET line == readline(blocklist_file, f_pos)
           word == LoadedWord(line)
       IN  /\ f_pos' = f_pos + Len(line)
           /\ blocked_words' = blocked_words \cup SpaceSeparated(word)
    /\ UNCHANGED <<blocklist_file, infile, infile_pos, outfile_exists, outfile,
                   kept_count, removed_count, removed_words, pc, aborted,
                   run, first>>

\* One iteration of `for line in f`.
LoadLine ==
    /\ pc = "load_blocklist"
    /\ ~aborted
    /\ ~AtEOF(blocklist_file, f_pos)
    /\ LET line == readline(blocklist_file, f_pos)
           word == LoadedWord(line)
       IN  /\ f_pos' = f_pos + Len(line)
           /\ blocked_words' =
                 IF IsSingleWord(word)
                 THEN blocked_words \cup {word}
                 ELSE blocked_words
    /\ UNCHANGED <<blocklist_file, infile, infile_pos, outfile_exists, outfile,
                   kept_count, removed_count, removed_words, pc, aborted,
                   run, first>>

\* `return blocked_words`
LoadReturn ==
    /\ pc = "load_blocklist"
    /\ ~aborted
    /\ AtEOF(blocklist_file, f_pos)
    /\ pc' = "main"
    /\ UNCHANGED <<blocklist_file, f_pos, blocked_words, infile, infile_pos,
                   outfile_exists, outfile, kept_count, removed_count,
                   removed_words, aborted, run, first>>

----------------------------------------------------------------------------
(* filter_wordlist *)

\* The counters are reset and both files are opened; mode 'w' creates the
\* output file or truncates it.
OpenFiles ==
    /\ pc = "main"
    /\ ~aborted
    /\ kept_count' = 0
    /\ removed_count' = 0
    /\ removed_words' = <<>>
    /\ infile_pos' = 0
    /\ outfile_exists' = TRUE
    /\ outfile' = <<>>
    /\ pc' = "filter_wordlist"
    /\ UNCHANGED <<blocklist_file, f_pos, blocked_words, infile, aborted,
                   run, first>>

\* Variant: the line is used as read.
FilterWord_NotStripped(line) == line

\* `word = line.strip()`
FilterWord(line) == strip(line)

\* Variant: the word is looked up in its own casing.
IsKept_CaseSensitive(word) == word \notin blocked_words

\* `if word.lower() not in blocked_words:`
IsKept(word) == lower(word) \notin blocked_words

\* Variant: the line end is not written.
Written_NoLineEnd(word) == word

\* Variant: the lowercased word is written.
Written_Lowered(word) == lower(word) \o <<NL>>

\* `outfile.write(word + '\n')`
Written(word) == word \o <<NL>>

\* Variant: the lowercased word is recorded as removed.
FilterLine_RecordsLowered ==
    /\ pc = "filter_wordlist"
    /\ ~aborted
    /\ ~AtEOF(infile, infile_pos)
    /\ LET line == readline(infile, infile_pos)
           word == FilterWord(line)
       IN  /\ infile_pos' = infile_pos + Len(line)
           /\ IF IsKept(word)
              THEN /\ outfile' = outfile \o Written(word)
                   /\ kept_count' = kept_count + 1
                   /\ UNCHANGED <<removed_count, removed_words>>
              ELSE /\ removed_count' = removed_count + 1
                   /\ removed_words' = Append(removed_words, lower(word))
                   /\ UNCHANGED <<outfile, kept_count>>
    /\ UNCHANGED <<blocklist_file, f_pos, blocked_words, infile,
                   outfile_exists, pc, aborted, run, first>>

\* Variant: a blank line is skipped before anything is counted.
FilterLine_SkipsBlank ==
    /\ pc = "filter_wordlist"
    /\ ~aborted
    /\ ~AtEOF(infile, infile_pos)
    /\ LET line == readline(infile, infile_pos)
           word == FilterWord(line)
       IN  /\ infile_pos' = infile_pos + Len(line)
           /\ IF Len(word) = 0
              THEN UNCHANGED <<outfile, kept_count, removed_count,
                               removed_words>>
              ELSE IF IsKept(word)
              THEN /\ outfile' = outfile \o Written(word)
                   /\ kept_count' = kept_count + 1
                   /\ UNCHANGED <<removed_count, removed_words>>
              ELSE /\ removed_count' = removed_count + 1
                   /\ removed_words' = Append(removed_words, word)
                   /\ UNCHANGED <<outfile, kept_count>>
    /\ UNCHANGED <<blocklist_file, f_pos, blocked_words, infile,
                   outfile_exists, pc, aborted, run, first>>

\* One iteration of `for line in infile`.
FilterLine ==
    /\ pc = "filter_wordlist"
    /\ ~aborted
    /\ ~AtEOF(infile, infile_pos)
    /\ LET line == readline(infile, infile_pos)
           word == FilterWord(line)
       IN  /\ infile_pos' = infile_pos + Len(line)
           /\ IF IsKept(word)
              THEN /\ outfile' = outfile \o Written(word)
                   /\ kept_count' = kept_count + 1
                   /\ UNCHANGED <<removed_count, removed_words>>
              ELSE /\ removed_count' = removed_count + 1
                   /\ removed_words' = Append(removed_words, word)
                   /\ UNCHANGED <<outfile, kept_count>>
    /\ UNCHANGED <<blocklist_file, f_pos, blocked_words, infile,
                   outfile_exists, pc, aborted, run, first>>

\* `return kept_count, removed_count, removed_words`
FilterReturn ==
    /\ pc = "filter_wordlist"
    /\ ~aborted
    /\ AtEOF(infile, infile_pos)
    /\ pc' = "done"
    /\ UNCHANGED <<blocklist_file, f_pos, blocked_words, infile, infile_pos,
                   outfile_exists, outfile, kept_count, removed_count,
                   removed_words, aborted, run, first>>

----------------------------------------------------------------------------
(* Failure and re-run *)

\* Variant: the output file is opened before the input file, so a failing
\* open of the input leaves it created or truncated.
Abort_AfterOutputOpened ==
    /\ pc # "done"
    /\ ~aborted
    /\ aborted' = TRUE
    /\ outfile_exists' = (outfile_exists \/ pc = "main")
    /\ outfile' = IF pc = "main" THEN <<>> ELSE outfile
    /\ UNCHANGED <<blocklist_file, f_pos, blocked_words, infile, infile_pos,
                   kept_count, removed_count, removed_words, pc, run, first>>

\* A file-access or decoding error is raised by an open or a read; nothing
\* catches it, the `with` block closes the files and the run ends.
Abort ==
    /\ pc # "done"
    /\ ~aborted
    /\ aborted' = TRUE
    /\ UNCHANGED <<blocklist_file, f_pos, blocked_words, infile, infile_pos,
                   outfile_exists, outfile, kept_count, removed_count,
                   removed_words, pc, run, first>>

\* filter_wordlist is called again with the same set, the first run's output
\* file as its input and a fresh output path.
Rerun ==
    /\ pc = "done"
    /\ run = 1
    /\ first' = [kept |-> kept_count, removed |-> removed_count,
                 outfile |-> outfile]
    /\ infile' = outfile
    /\ outfile_exists' = FALSE
    /\ outfile' = <<>>
    /\ run' = 2
    /\ pc' = "main"
    /\ UNCHANGED <<blocklist_file, f_pos, blocked_words, infile_pos,
                   kept_count, removed_count, removed_words, aborted>>

----------------------------------------------------------------------------
(* Specifications *)

\* main: load_blocklist, then filter_wordlist; any step may fail.
Next ==
    \/ LoadLine
    \/ LoadReturn
    \/ OpenFiles
    \/ FilterLine
    \/ FilterReturn
    \/ Abort

Spec == Init /\ [][Next]_vars

\* load_blocklist alone.
InitLoad ==
    /\ blocklist_file \in Texts(MaxBlockLines)
    /\ infile = <<>>
    /\ outfile_exists = FALSE
    /\ outfile = <<>>
    /\ f_pos = 0
    /\ blocked_words = {}
    /\ infile_pos = 0
    /\ kept_count = 0
    /\ removed_count = 0
    /\ removed_words = <<>>
    /\ pc = "load_blocklist"
    /\ aborted = FALSE
    /\ run = 1
    /\ first = [kept |-> 0, removed |-> 0, outfile |-> <<>>]

NextLoad ==
    \/ LoadLine
    \/ LoadReturn

SpecLoad == InitLoad /\ [][NextLoad]_vars

\* filter_wordlist alone, called with any set, then called again on its output.
InitFilter ==
    /\ blocklist_file = <<>>
    /\ infile \in Texts(MaxInputLines)
    /\ blocked_words \in SUBSET BlockUniverse
    /\ outfile_exists = FALSE
    /\ outfile = <<>>
    /\ f_pos = 0
    /\ infile_pos = 0
    /\ kept_count = 0
    /\ removed_count = 0
    /\ removed_words = <<>>
    /\ pc = "main"
    /\ aborted = FALSE
    /\ run = 1
    /\ first = [kept |-> 0, removed |-> 0, outfile |-> <<>>]

NextFilter ==
    \/ OpenFiles
    \/ FilterLine
    \/ FilterReturn
    \/ Rerun

SpecFilter == InitFilter /\ [][NextFilter]_vars

----------------------------------------------------------------------------
(* Vocabulary of the properties *)

\* The lines `for line in f` yields, each with its line end.
RECURSIVE FileLines(_)
FileLines(text) ==
    IF Len(text) = 0 THEN <<>>
    ELSE LET l == readline(text, 0)
         IN  <<l>> \o FileLines(SubSeq(text, Len(l) + 1, Len(text)))

\* A line without its line end.
LineContent(l) ==
    IF Len(l) > 0 /\ l[Len(l)] = NL THEN SubSeq(l, 1, Len(l) - 1) ELSE l

FileLineContents(text) ==
    LET ls == FileLines(text) IN [i \in 1..Len(ls) |-> LineContent(ls[i])]

\* The words of a text: its lines stripped, in order.
FileWords(text) ==
    LET ls == FileLines(text) IN [i \in 1..Len(ls) |-> strip(ls[i])]

\* Number of lines of a text, counted from its line ends.
CountLines(text) ==
    Cardinality({ i \in 1..Len(text) : text[i] = NL })
      + (IF Len(text) > 0 /\ text[Len(text)] # NL THEN 1 ELSE 0)

Range(s) == { s[i] : i \in 1..Len(s) }

RECURSIVE IsSubseq(_, _)
IsSubseq(s, t) ==
    IF Len(s) = 0 THEN TRUE
    ELSE IF Len(t) = 0 THEN FALSE
    ELSE IF Head(s) = Head(t) THEN IsSubseq(Tail(s), Tail(t))
    ELSE IsSubseq(s, Tail(t))

IsPrefix(s, t) == Len(s) <= Len(t) /\ SubSeq(t, 1, Len(s)) = s

Blocked(w) == lower(w) \in blocked_words
NotBlocked(w) == lower(w) \notin blocked_words

InFilter == pc \in {"filter_wordlist", "done"}

\* The part of infile the loop has consumed, and its words.
Consumed == SubSeq(infile, 1, infile_pos)
ConsumedWords == FileWords(Consumed)

\* The single words the blocklist file names, ignoring case.
SingleWordEntries ==
    { lower(strip(l)) : l \in { x \in Range(FileLines(blocklist_file)) :
                                  /\ Len(strip(x)) > 0
                                  /\ ~Contains(lower(strip(x)), " ") } }

----------------------------------------------------------------------------
(* Properties *)

\* C1: when filter_wordlist has completed, the output file holds exactly the
\* input words whose lowercase form is not in the set, in input order, each
\* in its original casing and on a line of its own.
C1_OutputIsKeptWords ==
    pc = "done" => outfile = JoinLines(SelectSeq(FileWords(infile), NotBlocked))

C1_Witness ==
    /\ pc = "done"
    /\ run = 1
    /\ removed_words = << <<"A">> >>
    /\ outfile = <<"a", " ", "b", NL>>

\* C2: a word whose lowercase form is in the set gets no line in the output;
\* the removed-words record is the input-order sequence of the blocked words
\* consumed so far, in their original casing, and removed_count is its
\* length.  On return that is all blocked words of the input.
C2_RemovedRecord ==
    InFilter =>
        /\ removed_words = SelectSeq(ConsumedWords, Blocked)
        /\ removed_count = Len(removed_words)
        /\ \A w \in Range(FileLineContents(outfile)) : ~Blocked(w)
        /\ pc = "done" => removed_words = SelectSeq(FileWords(infile), Blocked)

C2_Witness ==
    /\ pc = "done"
    /\ removed_words = << <<"a">>, <<"A">> >>
    /\ removed_count = 2
    /\ outfile = <<>>

\* C3: a removed input word without a space is named, ignoring case, by a
\* blocklist line that holds a single word; when the blocklist file holds
\* only multi-word phrases nothing is removed.
C3_PhrasesBlockNothing ==
    InFilter =>
        /\ \A w \in Range(removed_words) :
              ~Contains(w, " ") => lower(w) \in SingleWordEntries
        /\ (\A l \in Range(FileLines(blocklist_file)) :
               Len(strip(l)) = 0 \/ Contains(strip(l), " "))
             => removed_words = <<>>

C3_Witness ==
    /\ pc = "done"
    /\ blocklist_file = <<"a", " ", "b", NL>>
    /\ infile = <<"a", NL, "b", NL>>
    /\ outfile = infile
    /\ kept_count = 2

\* C4: at every point of the filter loop kept_count + removed_count is the
\* number of input lines consumed, blank and whitespace-only lines included,
\* and on return it is the number of lines of the input file.
C4_CountsAddUp ==
    InFilter =>
        /\ kept_count + removed_count = CountLines(Consumed)
        /\ pc = "done" => kept_count + removed_count = CountLines(infile)

C4_Witness ==
    /\ pc = "done"
    /\ infile = <<NL, " ">>
    /\ kept_count = 2
    /\ removed_count = 0

\* C5: at every point of the filter loop the output file has kept_count
\* lines; for an empty input the file exists, is empty and kept_count is 0.
C5_OutputLineCount ==
    InFilter =>
        /\ outfile_exists
        /\ CountLines(outfile) = kept_count
        /\ (pc = "done" /\ Len(infile) = 0) => (outfile = <<>> /\ kept_count = 0)

C5_Witness ==
    /\ pc = "done"
    /\ kept_count = 1
    /\ removed_count = 1
    /\ CountLines(outfile) = 1

\* C6: filtering the first run's output again with the same set removes
\* nothing, keeps as many words as the first run kept and writes the same
\* output.
C6_Idempotent ==
    (run = 2 /\ pc = "done") =>
        /\ removed_count = 0
        /\ kept_count = first.kept
        /\ outfile = first.outfile

C6_Witness ==
    /\ run = 2
    /\ pc = "done"
    /\ first.removed = 1
    /\ first.kept = 1
    /\ kept_count = 1

\* C7: whether an input word is removed depends only on its lowercase form
\* and the lowercase forms of the blocklist entries: the removed words are
\* exactly the input words that equal, ignoring case, a single-word entry of
\* the blocklist file, whatever the casing of either.
C7_CaseInsensitive ==
    pc = "done" =>
        LET Named(w) == \E l \in Range(FileLines(blocklist_file)) :
                           /\ Len(strip(l)) > 0
                           /\ ~Contains(strip(l), " ")
                           /\ lower(strip(l)) = lower(w)
        IN  /\ removed_words = SelectSeq(FileWords(infile), Named)
            /\ \A w \in Range(FileLineContents(outfile)) : ~Named(w)

C7_Witness ==
    /\ pc = "done"
    /\ blocklist_file = <<"A", NL>>
    /\ removed_words = << <<"a">>, <<"A">> >>

\* C8 as stated: the output lines are a subsequence of the input lines,
\* each identical to its input line character for character.
C8_Verbatim ==
    pc = "done" =>
        IsSubseq(FileLineContents(outfile), FileLineContents(infile))

\* C8 as amended: the output lines are a subsequence of the input lines
\* with leading and trailing whitespace stripped; when no input line has
\* leading or trailing whitespace they are a subsequence of the input lines
\* themselves.
C8_StrippedSubsequence ==
    InFilter =>
        /\ IsSubseq(FileLineContents(outfile), FileWords(infile))
        /\ (\A l \in Range(FileLineContents(infile)) : strip(l) = l)
             => IsSubseq(FileLineContents(outfile), FileLineContents(infile))

C8_Witness ==
    /\ pc = "done"
    /\ infile = <<" ", "A", "\t", NL, "b", NL>>
    /\ outfile = <<"A", NL, "b", NL>>

\* C9: load_blocklist returns exactly the stripped, lowercased forms of the
\* blocklist lines that are non-empty and hold no space; every element is
\* non-empty, lowercase, without surrounding whitespace and without a space,
\* and case variants of one word are one element.
C9_BlocklistSet ==
    pc = "main" =>
        /\ blocked_words = SingleWordEntries
        /\ \A w \in blocked_words :
              /\ Len(w) > 0
              /\ lower(w) = w
              /\ strip(w) = w
              /\ ~Contains(w, " ")
        /\ \A l \in Range(FileLines(blocklist_file)) :
              (Len(strip(l)) > 0 /\ ~Contains(strip(l), " "))
                 => lower(strip(l)) \in blocked_words

C9_Witness ==
    /\ pc = "main"
    /\ blocklist_file = <<" ", "A", "\t", NL, "a">>
    /\ blocked_words = { <<"a">> }

\* C10: a step changes the output file only once the blocklist is loaded
\* and the input file is open, and never in a step that fails; from then
\* on the output is the kept words of the lines consumed so far, a prefix of
\* what the complete run writes, with no line for a blocked word.
C10_OutputOfAbortedRun ==
    /\ [][ (outfile' # outfile \/ outfile_exists' # outfile_exists)
             => /\ pc \in {"main", "filter_wordlist"}
                /\ AtEOF(blocklist_file, f_pos)
                /\ ~aborted' ]_vars
    /\ [](InFilter =>
             /\ outfile_exists
             /\ outfile = JoinLines(SelectSeq(ConsumedWords, NotBlocked))
             /\ IsPrefix(outfile,
                         JoinLines(SelectSeq(FileWords(infile), NotBlocked)))
             /\ \A w \in Range(FileLineContents(outfile)) : ~Blocked(w))

C10_Witness ==
    /\ aborted
    /\ pc = "filter_wordlist"
    /\ infile_pos > 0
    /\ infile_pos < Len(infile)
    /\ kept_count = 1
    /\ Len(SelectSeq(FileWords(infile), NotBlocked)) = 2

====
